---- MODULE Spec2Model ----
(***************************************************************************)
(* Model of the progressive elevation sampler of topo-slicer:              *)
(*   src/src/hooks/useElevationData.ts  (fetchForLine, reset)              *)
(*   src/src/utils/geo.ts               (interpolatePoints, distances)     *)
(*   src/src/utils/api.ts               (fetchElevations, as outcomes)     *)
(*                                                                         *)
(* One fetchForLine call is a session.  A session runs atomically between  *)
(* its suspension points (the awaits on fetchElevations, the 300 ms pacing *)
(* delay) and its completion timer; sessions, reset and new calls          *)
(* interleave at those points only (single-threaded event loop).           *)
(*                                                                         *)
(* Numbers.  Coordinates are integers in units of 1/13899360 degree, the   *)
(* angle of 8 mm on a great circle; the lines explored have lengths whose  *)
(* i/15 interpolation and REFINEMENT_ITERATIONS halvings are exact.        *)
(* progress is kept multiplied by REFINEMENT_ITERATIONS, so that           *)
(* 50 + ((iter + 1) / 3) * 50 is an integer.  An elevation is <<>> for     *)
(* null and <<v>> for the number v.                                        *)
(*                                                                         *)
(* Sharing.  A series is an array of point objects; refined holds the      *)
(* objects of elevationData themselves (line 86) and setData receives      *)
(* elevationData (line 70) or a copy of the array, not of the objects      *)
(* (line 118).  dataBy is the session whose array data holds (0: the empty *)
(* array of the initial state or of reset); prevData is the array that was *)
(* published before data, read now.                                        *)
(***************************************************************************)
EXTENDS Integers, Sequences, FiniteSets, TLC

INITIAL_SAMPLES == 15
REFINEMENT_ITERATIONS == 3

\* Number of fetchForLine calls explored.
MaxSessions == 2

Sessions == 1..MaxSessions

Null == <<>>
Some(v) == <<v>>
NoError == "<null>"

\* Coordinate units in one degree
UnitsPerDegree == 13899360

\* Lines handed to fetchForLine: one degree along the equator and two
\* degrees along a meridian.
Lines ==
  { [start |-> [lat |-> 0, lng |-> 0],
     end |-> [lat |-> 0, lng |-> UnitsPerDegree]],
    [start |-> [lat |-> 0, lng |-> 0],
     end |-> [lat |-> 2 * UnitsPerDegree, lng |-> 0]] }

\* Short lines along the equator: of length 0 (both clicks on one spot),
\* of 15.36 m (samples 1.024 m apart) and of 120 m (samples 8 m apart).
ShortLines ==
  { [start |-> [lat |-> 0, lng |-> 0], end |-> [lat |-> 0, lng |-> 0]],
    [start |-> [lat |-> 0, lng |-> 0], end |-> [lat |-> 0, lng |-> 1920]],
    [start |-> [lat |-> 0, lng |-> 0], end |-> [lat |-> 0, lng |-> 15000]] }

\* Shapes of a successful service response to a request of n coordinates.
RespKinds == {"all100", "allNull", "shortAlt"}

\* Response shapes explored when several sessions interleave.
LifeKinds == {"all100"}

\* The service answers every coordinate with its terrain value.
TerrainKinds == {"terrain"}

\* Messages of the non-cancellation failures fetchElevations can throw.
ErrMsgs == {"Elevation API returned 500", "Failed to fetch"}

VARIABLES data, loading, progress, error, isRefining,
          abortControllerRef, isCancelledRef,
          nSessions, pc, aborted, iter, elevationData, request,
          round, last, prevData, dataBy, call, geo, draw

published == <<data, loading, progress, error, isRefining>>
hook == <<data, loading, progress, error, isRefining,
          abortControllerRef, isCancelledRef,
          nSessions, pc, aborted, iter, elevationData, request,
          round, last, prevData, dataBy>>
vars == <<hook, call, geo, draw>>

----------------------------------------------------------------------------
\* Pure helpers

Abs(x) == IF x < 0 THEN 0 - x ELSE x

Max(a, b) == IF a >= b THEN a ELSE b

RECURSIVE Pow2(_)
Pow2(k) == IF k = 0 THEN 1 ELSE 2 * Pow2(k - 1)

\* progress values are stored multiplied by REFINEMENT_ITERATIONS
Pct(p) == p * REFINEMENT_ITERATIONS

\* Millimetres per coordinate unit on a great circle:
\* 6371e3 * PI / 180 / 13899360 m = 8 mm
MmPerUnit == 8

\* haversineDistance, in millimetres.  On a meridian (equal longitudes) and
\* on the equator the haversine formula reduces to R * |delta angle|.
haversineDistance(lat1, lon1, lat2, lon2) ==
  CASE lon1 = lon2 -> Abs(lat2 - lat1) * MmPerUnit
    [] lat1 = 0 /\ lat2 = 0 -> Abs(lon2 - lon1) * MmPerUnit

\* Math.round of a non-negative number given in thousandths
RoundMilli(x) == (x + 500) \div 1000

\* Faulty variant of RoundHalf: the sum is not halved.
SumNotHalved(a, b) == a + b

\* Math.round((a + b) / 2) for integers a, b: halves round up
RoundHalf(a, b) == (a + b + 1) \div 2

\* Faulty variant of interpolatePoints: numPoints points, the end point left
\* out.
interpolatePointsExclusive(start, end, numPoints) ==
  [k \in 1..numPoints |->
     [lat |-> start.lat + ((end.lat - start.lat) * (k - 1)) \div numPoints,
      lng |-> start.lng + ((end.lng - start.lng) * (k - 1)) \div numPoints]]

\* geo.ts lines 34-50: i runs from 0 to numPoints inclusive
interpolatePoints(start, end, numPoints) ==
  [k \in 1..(numPoints + 1) |->
     [lat |-> start.lat + ((end.lat - start.lat) * (k - 1)) \div numPoints,
      lng |-> start.lng + ((end.lng - start.lng) * (k - 1)) \div numPoints]]

RECURSIVE CumulativeMm(_, _)
CumulativeMm(coords, i) ==
  IF i <= 1 THEN 0
  ELSE CumulativeMm(coords, i - 1)
       + haversineDistance(coords[i-1].lat, coords[i-1].lng,
                           coords[i].lat, coords[i].lng)

\* Faulty variant of calculateCumulativeDistances: the rounded steps are
\* summed.
RECURSIVE SumOfRoundedSteps(_, _)
SumOfRoundedSteps(coords, i) ==
  IF i <= 1 THEN 0
  ELSE SumOfRoundedSteps(coords, i - 1)
       + RoundMilli(haversineDistance(coords[i-1].lat, coords[i-1].lng,
                                      coords[i].lat, coords[i].lng))

cumulativeOfRoundedSteps(coords) ==
  [i \in 1..Max(1, Len(coords)) |-> SumOfRoundedSteps(coords, i)]

\* geo.ts lines 56-70: distances starts as [0], also for no coordinates
calculateCumulativeDistances(coords) ==
  [i \in 1..Max(1, Len(coords)) |->
     IF i = 1 THEN 0 ELSE RoundMilli(CumulativeMm(coords, i))]

\* A service that knows every coordinate: 100 on the equator, rising with
\* the latitude.
Terrain(c) == Some(100 + c.lat)

\* The service's answer of shape kind to a request of these coordinates.
Response(kind, coords) ==
  LET n == Len(coords) IN
  CASE kind = "all100"  -> [i \in 1..n |-> Some(100)]
    [] kind = "allNull" -> [i \in 1..n |-> Null]
    [] kind = "shortAlt" ->
         [i \in 1..(n - 1) |-> IF i % 2 = 1 THEN Some(250) ELSE Null]
    [] kind = "terrain" -> [i \in 1..n |-> Terrain(coords[i])]

\* elevations[i] ?? null
At(elevs, i) == IF i >= 1 /\ i <= Len(elevs) THEN elevs[i] ELSE Null

\* lines 63-68: the initial series
InitialSeries(coords, elevations) ==
  LET distances == calculateCumulativeDistances(coords) IN
  [i \in 1..Len(coords) |->
     [lat |-> coords[i].lat, lng |-> coords[i].lng,
      distance |-> distances[i],
      elevation |-> At(elevations, i)]]

\* Faulty variant of Midpoint: the new point takes the distance of the
\* point before it.
MidpointAtCurrent(current, next) ==
  [lat |-> (current.lat + next.lat) \div 2,
   lng |-> (current.lng + next.lng) \div 2,
   distance |-> current.distance,
   elevation |-> Null]

\* lines 87-92
Midpoint(current, next) ==
  [lat |-> (current.lat + next.lat) \div 2,
   lng |-> (current.lng + next.lng) \div 2,
   distance |-> RoundHalf(current.distance, next.distance),
   elevation |-> Null]

\* Faulty variant of Refine: the last point is not pushed (lines 94-97
\* left out).
RefineDropLast(ed) ==
  IF Len(ed) = 0 THEN <<>>
  ELSE [j \in 1..(2 * Len(ed) - 2) |->
          IF j % 2 = 1 THEN ed[(j + 1) \div 2]
          ELSE Midpoint(ed[j \div 2], ed[j \div 2 + 1])]

\* lines 79-97: every point followed by the midpoint to its successor,
\* then the last point
Refine(ed) ==
  IF Len(ed) = 0 THEN <<>>
  ELSE [j \in 1..(2 * Len(ed) - 1) |->
          IF j % 2 = 1 THEN ed[(j + 1) \div 2]
          ELSE Midpoint(ed[j \div 2], ed[j \div 2 + 1])]

\* line 100: refined.filter((p) => p.elevation === null)
NeedsElevation(refined) ==
  SelectSeq(refined, LAMBDA p : p.elevation = Null)

Coords(points) ==
  [i \in 1..Len(points) |-> [lat |-> points[i].lat, lng |-> points[i].lng]]

\* Faulty variant of ElevIdx: elevIdx is never incremented.
ElevIdxStuck(refined, j) == 0

\* elevIdx when the merge loop reaches refined[j]: one answer was consumed
\* by every point before it whose elevation was null
ElevIdx(refined, j) ==
  Cardinality({k \in 1..(j - 1) : refined[k].elevation = Null})

\* Faulty variant of Merge: an answer with fewer entries than points asked
\* for is thrown away as a whole.
MergeWhenComplete(refined, newElevations) ==
  [j \in 1..Len(refined) |->
     IF /\ refined[j].elevation = Null
        /\ Len(newElevations) >= Len(NeedsElevation(refined))
     THEN [refined[j] EXCEPT
             !.elevation = At(newElevations, ElevIdx(refined, j) + 1)]
     ELSE refined[j]]

\* lines 109-114: every point whose elevation is null takes
\* newElevations[elevIdx++] ?? null
Merge(refined, newElevations) ==
  [j \in 1..Len(refined) |->
     IF refined[j].elevation = Null
     THEN [refined[j] EXCEPT
             !.elevation = At(newElevations, ElevIdx(refined, j) + 1)]
     ELSE refined[j]]

\* The array old, published before the merge of lines 109-114, read after
\* it: its i-th object is the (2i-1)-th object of refined (line 86), which
\* the merge has left as merged[2i-1]; an object that is not in refined is
\* as it was.
ReadAfterMerge(old, refined, merged) ==
  [i \in 1..Len(old) |->
     IF 2 * i - 1 <= Len(refined) THEN merged[2 * i - 1] ELSE old[i]]

\* Faulty variant of AbortCurrent: the previous controller is left alone.
AbortNone(ab, ref) == ab

\* lines 30-32 and 43-45: abort the controller the ref holds
AbortCurrent(ab, ref) ==
  IF ref = 0 THEN ab ELSE [ab EXCEPT ![ref] = TRUE]

----------------------------------------------------------------------------
\* Record of the step just taken: the operation, the session that took it
\* (0 for reset), whether it called setData, the round of the snapshot it
\* published (-1 if none), the message of the failure it handled and the
\* elevations the fetch it awaited resolved with.
Step(op, s, pub, rnd, msg) ==
  [op |-> op, s |-> s, pub |-> pub, round |-> rnd, msg |-> msg,
   answer |-> <<>>]

\* The step of a session whose fetch resolved with answer and which
\* published the snapshot of round rnd.
ResolvedWith(s, rnd, answer) ==
  [Step("resolve", s, TRUE, rnd, NoError) EXCEPT !.answer = answer]

\* No function of geo.ts has been called.
NoGeo == [fn |-> "none", pts |-> <<>>, n |-> 0, out |-> <<>>]

\* The last gesture of the drawing UI invoked no callback.
NoOut == [fn |-> "none", arg |-> <<>>]

\* The drawing UI as mounted: draw mode off, nothing drawn.
NoDraw ==
  [drawMode |-> FALSE, drawMethod |-> "drag", isDrawing |-> FALSE,
   dragStart |-> Null, tempPoints |-> <<>>, finalPoints |-> <<>>,
   spotElevation |-> Null, spotFetches |-> {}, out |-> NoOut]

\* No call of fetchElevations has been made.
NoCall ==
  [pc |-> "idle", coords |-> <<>>, signal |-> FALSE, fetches |-> 0,
   net |-> "none", status |-> Null, body |-> Null, out |-> Null]

Init ==
  /\ data = <<>>
  /\ loading = FALSE
  /\ progress = 0
  /\ error = NoError
  /\ isRefining = FALSE
  /\ abortControllerRef = 0
  /\ isCancelledRef = FALSE
  /\ nSessions = 0
  /\ pc = [s \in Sessions |-> "idle"]
  /\ aborted = [s \in Sessions |-> FALSE]
  /\ iter = [s \in Sessions |-> 0]
  /\ elevationData = [s \in Sessions |-> <<>>]
  /\ request = [s \in Sessions |-> <<>>]
  /\ round = [s \in Sessions |-> 0 - 1]
  /\ last = Step("init", 0, FALSE, 0 - 1, NoError)
  /\ prevData = <<>>
  /\ dataBy = 0
  /\ call = NoCall
  /\ geo = NoGeo
  /\ draw = NoDraw

\* Faulty variant of CancelledInitial: the flag is not looked at.
NotChecked == FALSE

\* line 61: if (isCancelledRef.current) return
CancelledInitial == isCancelledRef

\* lines 76 and 107: if (isCancelledRef.current || signal.aborted) return
CancelledRound(s) == isCancelledRef \/ aborted[s]

\* Faulty variant of CancelledCatch: the catch block always returns.
AlwaysCancelled == TRUE

\* line 129: if (isCancelledRef.current) return
CancelledCatch == isCancelledRef

\* Faulty variant of IsAbortError: the error's name is not looked at.
NeverAbortError(kind) == FALSE

\* line 131: err instanceof Error && err.name === 'AbortError'
IsAbortError(kind) == kind = "abort"

\* Faulty variant of NextIter: the loop counter does not advance.
SameIter(it) == it

\* line 75: iter++
NextIter(it) == it + 1

\* Faulty variant of RoundProgress: one round ahead.
RoundProgressAhead(it) == 50 * REFINEMENT_ITERATIONS + 50 * (it + 2)

\* Faulty variant of RoundProgress: iter is used where iter + 1 is meant.
RoundProgressOff(it) == Pct(50) + it * 50

\* line 119: 50 + ((iter + 1) / REFINEMENT_ITERATIONS) * 50
RoundProgress(it) == Pct(50) + (it + 1) * 50

\* Faulty variant of ErrorMessage: the fallback text is always shown.
DefaultMessage(msg) == "Failed to fetch elevation data"

\* lines 137-142: every failure of fetchElevations is an Error, whose
\* message is shown
ErrorMessage(msg) == msg

\* A session leaves fetchForLine: its locals are gone.
Return(s, label) ==
  /\ pc' = [pc EXCEPT ![s] = label]
  /\ iter' = [iter EXCEPT ![s] = 0]
  /\ elevationData' = [elevationData EXCEPT ![s] = <<>>]
  /\ request' = [request EXCEPT ![s] = <<>>]
  /\ round' = [round EXCEPT ![s] = 0 - 1]

\* lines 76-105: head of refinement iteration it with current series ed,
\* whose snapshot was published as round rnd.  Refine(ed) has at least one
\* null midpoint, so needsElevation.length > 0 and the fetch is awaited.
RoundStart(s, ed, it, rnd) ==
  IF CancelledRound(s)
  THEN Return(s, "cancelled")
  ELSE /\ round' = [round EXCEPT ![s] = rnd]
       /\ pc' = [pc EXCEPT ![s] = "fetchR"]
       /\ iter' = [iter EXCEPT ![s] = it]
       /\ elevationData' = [elevationData EXCEPT ![s] = ed]
       /\ request' = [request EXCEPT
                        ![s] = Coords(NeedsElevation(Refine(ed)))]

\* lines 29-39
Reset ==
  /\ aborted' = AbortCurrent(aborted, abortControllerRef)
  /\ isCancelledRef' = TRUE
  /\ data' = <<>>
  /\ loading' = FALSE
  /\ progress' = 0
  /\ error' = NoError
  /\ isRefining' = FALSE
  /\ last' = Step("reset", 0, TRUE, 0 - 1, NoError)
  /\ prevData' = data
  /\ dataBy' = 0
  /\ UNCHANGED <<call, geo, draw>>
  /\ UNCHANGED <<abortControllerRef, nSessions, pc, iter, elevationData,
                 request, round>>

\* Faulty variant of FetchForLine: the call clears the published series.
FetchForLineClears(line, max) ==
  /\ nSessions < max
  /\ LET s == nSessions + 1 IN
     /\ nSessions' = s
     /\ aborted' = AbortCurrent(aborted, abortControllerRef)
     /\ abortControllerRef' = s
     /\ isCancelledRef' = FALSE
     /\ data' = <<>>
     /\ loading' = TRUE
     /\ progress' = Pct(10)
     /\ error' = NoError
     /\ isRefining' = FALSE
     /\ pc' = [pc EXCEPT ![s] = "fetch0"]
     /\ request' = [request EXCEPT
          ![s] = interpolatePoints(line.start, line.end, INITIAL_SAMPLES)]
     /\ last' = Step("fetchForLine", s, FALSE, 0 - 1, NoError)
  /\ UNCHANGED <<call, geo, draw>>
  /\ UNCHANGED <<iter, elevationData, round, prevData, dataBy>>

\* lines 41-59: up to the await of the initial fetch; max bounds the number
\* of calls explored
FetchForLine(line, max) ==
  /\ nSessions < max
  /\ LET s == nSessions + 1 IN
     /\ nSessions' = s
     /\ aborted' = AbortCurrent(aborted, abortControllerRef)
     /\ abortControllerRef' = s
     /\ isCancelledRef' = FALSE
     /\ loading' = TRUE
     /\ progress' = Pct(10)
     /\ error' = NoError
     /\ isRefining' = FALSE
     /\ pc' = [pc EXCEPT ![s] = "fetch0"]
     /\ request' = [request EXCEPT
          ![s] = interpolatePoints(line.start, line.end, INITIAL_SAMPLES)]
     /\ last' = Step("fetchForLine", s, FALSE, 0 - 1, NoError)
  /\ UNCHANGED <<call, geo, draw>>
  /\ UNCHANGED <<data, iter, elevationData, round, prevData, dataBy>>

\* What reading .lat of a missing point throws (line 58, geo.ts lines 44-45)
MissingPointMsg == "Cannot read properties of undefined (reading 'lat')"

\* lines 41-58 and 128-148 for a call that hands over fewer than two points
\* (vertices is empty or holds one point): the end point is undefined, so
\* interpolatePoints throws a TypeError inside the try block before any
\* fetch is made, and the catch block, the flag just cleared, shows it.
FetchForLineDegenerate(vertices, max) ==
  /\ Len(vertices) < 2
  /\ nSessions < max
  /\ LET s == nSessions + 1 IN
     /\ nSessions' = s
     /\ aborted' = AbortCurrent(aborted, abortControllerRef)
     /\ abortControllerRef' = s
     /\ isCancelledRef' = FALSE
     /\ error' = ErrorMessage(MissingPointMsg)
     /\ loading' = FALSE
     /\ isRefining' = FALSE
     /\ progress' = 0
     /\ pc' = [pc EXCEPT ![s] = "failed"]
     /\ last' = Step("degenerate", s, FALSE, 0 - 1, MissingPointMsg)
  /\ UNCHANGED <<call, geo, draw>>
  /\ UNCHANGED <<data, iter, elevationData, request, round, prevData,
                 dataBy>>

\* Faulty variant of AwaitsInitialFetch: a failed session fetches again.
AwaitsOrFailed(s) == pc[s] \in {"fetch0", "failed"}

\* line 59: s is suspended in the await of the initial fetch
AwaitsInitialFetch(s) == pc[s] = "fetch0"

\* lines 59-105: the initial fetch resolves with a response of shape kind
InitialResolve(s, kind) ==
  /\ AwaitsInitialFetch(s)
  /\ UNCHANGED <<call, geo, draw>>
  /\ UNCHANGED <<abortControllerRef, isCancelledRef, nSessions, aborted>>
  /\ IF CancelledInitial
     THEN /\ Return(s, "cancelled")
          /\ last' = Step("resolve", s, FALSE, 0 - 1, NoError)
          /\ UNCHANGED <<published, prevData, dataBy>>
     ELSE LET coords == request[s]
              ed == InitialSeries(coords, Response(kind, coords))
          IN /\ data' = ed
             /\ prevData' = data
             /\ dataBy' = s
             /\ progress' = Pct(50)
             /\ isRefining' = TRUE
             /\ last' = ResolvedWith(s, 0, Response(kind, coords))
             /\ RoundStart(s, ed, 0, 0)
             /\ UNCHANGED <<loading, error>>

\* lines 102-122: a refinement fetch resolves with a response of shape kind.
\* refined, built before the await, is Refine(elevationData[s]).
RefineResolve(s, kind) ==
  /\ pc[s] = "fetchR"
  /\ UNCHANGED <<call, geo, draw>>
  /\ UNCHANGED <<abortControllerRef, isCancelledRef, nSessions, aborted>>
  /\ IF CancelledRound(s)
     THEN /\ Return(s, "cancelled")
          /\ last' = Step("resolve", s, FALSE, 0 - 1, NoError)
          /\ UNCHANGED <<published, prevData, dataBy>>
     ELSE LET ed == Merge(Refine(elevationData[s]),
                          Response(kind, request[s]))
          IN /\ elevationData' = [elevationData EXCEPT ![s] = ed]
             /\ data' = ed
             /\ prevData' = IF dataBy = s
                          THEN ReadAfterMerge(data, Refine(elevationData[s]),
                                              ed)
                          ELSE data
             /\ dataBy' = s
             /\ progress' = RoundProgress(iter[s])
             /\ round' = [round EXCEPT ![s] = iter[s] + 1]
             /\ last' = ResolvedWith(s, iter[s] + 1,
                                     Response(kind, request[s]))
             /\ pc' = [pc EXCEPT ![s] = "delay"]
             /\ request' = [request EXCEPT ![s] = <<>>]
             /\ UNCHANGED <<loading, error, isRefining, iter>>

\* lines 128-148: the awaited fetch rejects.  kind is "abort" for the
\* AbortError of an aborted signal, "error" for any other failure, whose
\* message is msg.
FetchReject(s, kind, msg) ==
  /\ pc[s] \in {"fetch0", "fetchR"}
  /\ kind = "abort" => aborted[s]
  /\ last' = Step(kind, s, FALSE, 0 - 1,
                  IF kind = "error" THEN msg ELSE NoError)
  /\ UNCHANGED <<call, geo, draw>>
  /\ UNCHANGED <<abortControllerRef, isCancelledRef, nSessions, aborted,
                 data, prevData, dataBy>>
  /\ IF CancelledCatch \/ IsAbortError(kind)
     THEN /\ Return(s, "cancelled")
          /\ UNCHANGED <<loading, progress, error, isRefining>>
     ELSE /\ Return(s, "failed")
          /\ error' = ErrorMessage(msg)
          /\ loading' = FALSE
          /\ isRefining' = FALSE
          /\ progress' = 0

\* lines 122-127, 75-105: the pacing delay elapses
DelayResume(s) ==
  /\ pc[s] = "delay"
  /\ last' = Step("delay", s, FALSE, 0 - 1, NoError)
  /\ UNCHANGED <<call, geo, draw>>
  /\ UNCHANGED <<abortControllerRef, isCancelledRef, nSessions, aborted,
                 data, progress, error, prevData, dataBy>>
  /\ IF NextIter(iter[s]) < REFINEMENT_ITERATIONS
     THEN /\ RoundStart(s, elevationData[s], NextIter(iter[s]), round[s])
          /\ UNCHANGED <<loading, isRefining>>
     ELSE /\ isRefining' = FALSE
          /\ loading' = FALSE
          /\ Return(s, "timer")

\* Faulty variant of TimerFire: the timer callback leaves progress alone.
TimerFireKeeps(s) ==
  /\ pc[s] = "timer"
  /\ pc' = [pc EXCEPT ![s] = "done"]
  /\ last' = Step("timer", s, FALSE, 0 - 1, NoError)
  /\ UNCHANGED <<call, geo, draw>>
  /\ UNCHANGED <<data, loading, progress, error, isRefining,
                 abortControllerRef, isCancelledRef, nSessions, aborted,
                 iter, elevationData, request, round, prevData, dataBy>>

\* line 127: setTimeout(() => setProgress(0), 500) fires
TimerFire(s) ==
  /\ pc[s] = "timer"
  /\ progress' = 0
  /\ pc' = [pc EXCEPT ![s] = "done"]
  /\ last' = Step("timer", s, FALSE, 0 - 1, NoError)
  /\ UNCHANGED <<call, geo, draw>>
  /\ UNCHANGED <<data, loading, error, isRefining, abortControllerRef,
                 isCancelledRef, nSessions, aborted, iter, elevationData,
                 request, round, prevData, dataBy>>

Next ==
  \/ Reset
  \/ \E line \in Lines : FetchForLine(line, MaxSessions)
  \/ \E s \in Sessions, kind \in LifeKinds : InitialResolve(s, kind)
  \/ \E s \in Sessions, kind \in LifeKinds : RefineResolve(s, kind)
  \/ \E s \in Sessions, kind \in {"abort", "error"}, msg \in ErrMsgs :
       FetchReject(s, kind, msg)
  \/ \E s \in Sessions : DelayResume(s)
  \/ \E s \in Sessions : TimerFire(s)

\* Sessions interleaving, the service answering every request in full.
Spec == Init /\ [][Next]_vars

\* A single fetchForLine call, the service answering in every shape.
NextSeries ==
  \/ Reset
  \/ \E line \in Lines : FetchForLine(line, 1)
  \/ \E s \in Sessions, kind \in RespKinds : InitialResolve(s, kind)
  \/ \E s \in Sessions, kind \in RespKinds : RefineResolve(s, kind)
  \/ \E s \in Sessions, kind \in {"abort", "error"}, msg \in ErrMsgs :
       FetchReject(s, kind, msg)
  \/ \E s \in Sessions : DelayResume(s)
  \/ \E s \in Sessions : TimerFire(s)

SpecSeries == Init /\ [][NextSeries]_vars

\* Sessions interleaving with calls that hand over fewer than two points.
NextInput ==
  \/ Reset
  \/ \E line \in Lines : FetchForLine(line, MaxSessions)
  \/ \E vertices \in {<<>>, <<[lat |-> 0, lng |-> 0]>>} :
       FetchForLineDegenerate(vertices, MaxSessions)
  \/ \E s \in Sessions, kind \in LifeKinds : InitialResolve(s, kind)
  \/ \E s \in Sessions, kind \in LifeKinds : RefineResolve(s, kind)
  \/ \E s \in Sessions, kind \in {"abort", "error"}, msg \in ErrMsgs :
       FetchReject(s, kind, msg)
  \/ \E s \in Sessions : DelayResume(s)
  \/ \E s \in Sessions : TimerFire(s)

SpecInput == Init /\ [][NextInput]_vars

\* Sessions interleaving, the service answering every coordinate with its
\* terrain value (never null).
NextTerrain ==
  \/ Reset
  \/ \E line \in Lines : FetchForLine(line, MaxSessions)
  \/ \E s \in Sessions, kind \in TerrainKinds : InitialResolve(s, kind)
  \/ \E s \in Sessions, kind \in TerrainKinds : RefineResolve(s, kind)
  \/ \E s \in Sessions, kind \in {"abort", "error"}, msg \in ErrMsgs :
       FetchReject(s, kind, msg)
  \/ \E s \in Sessions : DelayResume(s)
  \/ \E s \in Sessions : TimerFire(s)

SpecTerrain == Init /\ [][NextTerrain]_vars

\* A single fetchForLine call for a short line, the service answering in
\* every shape.
NextShort ==
  \/ Reset
  \/ \E line \in ShortLines : FetchForLine(line, 1)
  \/ \E s \in Sessions, kind \in RespKinds : InitialResolve(s, kind)
  \/ \E s \in Sessions, kind \in RespKinds : RefineResolve(s, kind)
  \/ \E s \in Sessions, kind \in {"abort", "error"}, msg \in ErrMsgs :
       FetchReject(s, kind, msg)
  \/ \E s \in Sessions : DelayResume(s)
  \/ \E s \in Sessions : TimerFire(s)

SpecShort == Init /\ [][NextShort]_vars

\* One fetchForLine call that nothing interrupts: no reset, no second call,
\* every fetch answered successfully (in any shape).  The call is session 1.
NextLive ==
  \/ \E line \in Lines : FetchForLine(line, 1)
  \/ \E kind \in RespKinds : InitialResolve(1, kind)
  \/ \E kind \in RespKinds : RefineResolve(1, kind)
  \/ DelayResume(1)
  \/ TimerFire(1)

\* Every pending fetch is eventually answered and every timer the session
\* sets (pacing delay, completion timer) eventually fires.
Fairness ==
  /\ WF_vars(\E kind \in RespKinds : InitialResolve(1, kind))
  /\ WF_vars(\E kind \in RespKinds : RefineResolve(1, kind))
  /\ WF_vars(DelayResume(1))
  /\ WF_vars(TimerFire(1))

SpecLive == Init /\ [][NextLive]_vars /\ Fairness

----------------------------------------------------------------------------
\* fetchElevations on its own (api.ts lines 37-78).  call is one call of
\* it: its argument, where it stands (idle, awaiting fetch, awaiting
\* response.json(), done), the number of fetch calls it has made, what the
\* network did (net, status, body) and how its promise settled (out).
\* signal says whether the caller's AbortSignal is aborted while the fetch
\* is pending.  The members of a result other than elevation are not read.

MaxCoords == 2

ApiCoords == {[lat |-> 0, lng |-> 0], [lat |-> 0, lng |-> 120]}

SeqsUpTo(S, n) == UNION {[1..k -> S] : k \in 0..n}

HttpStatuses == {200, 404, 500}

\* OpenTopoDataResponse, lines 25-35: error is optional, results is an array
\* of any length
Bodies ==
  [status : {"OK", "INVALID_REQUEST"},
   error : {Null, Some("Invalid location")},
   results : SeqsUpTo([elevation : {Null, Some(100)}], MaxCoords + 1)]

\* The promise resolves with value v.
Returned(v) ==
  [ok |-> TRUE, value |-> v, name |-> "", message |-> "",
   statusCode |-> Null]

\* The promise rejects with an error of this name.
Thrown(name, message, statusCode) ==
  [ok |-> FALSE, value |-> <<>>, name |-> name, message |-> message,
   statusCode |-> statusCode]

\* lines 37-45
ElevationApiError(message, statusCode) ==
  Thrown("ElevationApiError", message, statusCode)

\* What fetch rejects with: a TypeError when the request cannot be made or
\* answered, the signal's AbortError when it is aborted.
FetchFailure(name) ==
  Thrown(name, IF name = "AbortError" THEN "The operation was aborted."
                                      ELSE "Failed to fetch", Null)

\* response.ok
ResponseOk(status) == status \in 200..299

\* Faulty variant of EmptyInput: the early return is never taken.
NeverEmpty(coords) == FALSE

\* line 55
EmptyInput(coords) == Len(coords) = 0

\* lines 51-62: up to the await of fetch
ApiStart(coords, signal) ==
  /\ call.pc \in {"idle", "done"}
  /\ call' = IF EmptyInput(coords)
             THEN [NoCall EXCEPT !.pc = "done", !.coords = coords,
                                 !.signal = signal,
                                 !.out = Some(Returned(<<>>))]
             ELSE [NoCall EXCEPT !.pc = "fetch", !.coords = coords,
                                 !.signal = signal, !.fetches = 1]
  /\ UNCHANGED <<hook, geo, draw>>

\* line 62: fetch rejects; nothing catches it
ApiFetchRejects(name) ==
  /\ call.pc = "fetch"
  /\ name = "AbortError" => call.signal
  /\ call' = [call EXCEPT !.pc = "done",
                          !.net = IF name = "AbortError" THEN "aborted"
                                                         ELSE "failed",
                          !.out = Some(FetchFailure(name))]
  /\ UNCHANGED <<hook, geo, draw>>

\* lines 62-71: fetch resolves with a response of this status
ApiFetchResolves(status) ==
  /\ call.pc = "fetch"
  /\ call' = IF ~ResponseOk(status)
             THEN [call EXCEPT
                     !.pc = "done", !.net = "responded",
                     !.status = Some(status),
                     !.out = Some(ElevationApiError(
                               "Elevation API returned " \o ToString(status),
                               Some(status)))]
             ELSE [call EXCEPT !.pc = "json", !.net = "responded",
                               !.status = Some(status)]
  /\ UNCHANGED <<hook, geo, draw>>

\* lines 71-77: response.json() resolves with this payload
ApiJsonResolves(body) ==
  /\ call.pc = "json"
  /\ call' = [call EXCEPT
       !.pc = "done",
       !.body = Some(body),
       !.out = Some(
         IF body.status # "OK"
         THEN ElevationApiError(IF body.error = Null
                                THEN "Unknown API error"
                                ELSE body.error[1], Null)
         ELSE Returned([i \in 1..Len(body.results) |->
                          body.results[i].elevation]))]
  /\ UNCHANGED <<hook, geo, draw>>

NextApi ==
  \/ \E coords \in SeqsUpTo(ApiCoords, MaxCoords), signal \in BOOLEAN :
       ApiStart(coords, signal)
  \/ \E name \in {"TypeError", "AbortError"} : ApiFetchRejects(name)
  \/ \E status \in HttpStatuses : ApiFetchResolves(status)
  \/ \E body \in Bodies : ApiJsonResolves(body)

\* Calls of fetchElevations, one after the other, the network answering in
\* every way.
SpecApi == Init /\ [][NextApi]_vars

----------------------------------------------------------------------------
\* The functions of geo.ts on their own.  geo is the one call made: the
\* function, its arguments (pts, n) and its result.

\* Largest sample count handed to the interpolation functions.
MaxSamples == 4

\* Largest number of vertices of a polyline, and of coordinates handed to
\* calculateCumulativeDistances.
MaxVertices == 4

\* Math.round(num / den) for num >= 0, den > 0: halves round up
RoundRatio(num, den) == (2 * num + den) \div (2 * den)

\* JavaScript numbers are binary floating-point numbers: every arithmetic
\* operation rounds its exact result to the nearest number of Precision
\* significant bits, ties to the even one.  The model keeps the format and
\* shortens it: a number is an integer count of 1/One, with 4 significant
\* bits instead of 53.
Precision == 4
One == 16

\* The spacing of the numbers of the format around x >= 0
RECURSIVE Quantum(_, _)
Quantum(x, q) ==
  IF x < Pow2(Precision) * q THEN q ELSE Quantum(x, 2 * q)

\* The number of the format nearest to num / den (den > 0)
RoundToFloat(num, den) ==
  LET n == Abs(num)
      q == Quantum(n \div den, 1)
      lo == ((n \div den) \div q) * q
      mid == (2 * lo + q) * den
      r == IF 2 * n < mid THEN lo
           ELSE IF 2 * n > mid THEN lo + q
           ELSE IF (lo \div q) % 2 = 0 THEN lo ELSE lo + q
  IN IF num < 0 THEN 0 - r ELSE r

FlAdd(x, y) == RoundToFloat(x + y, 1)
FlSub(x, y) == RoundToFloat(x - y, 1)
FlMul(x, y) == RoundToFloat(x * y, One)

\* geo.ts line 42: t = i / numPoints
InterpolationT(i, numPoints) == RoundToFloat(i * One, numPoints)

\* geo.ts lines 34-50 in floating-point arithmetic
interpolatePointsFl(start, end, numPoints) ==
  [k \in 1..(numPoints + 1) |->
     LET t == InterpolationT(k - 1, numPoints) IN
     [lat |-> FlAdd(start.lat, FlMul(FlSub(end.lat, start.lat), t)),
      lng |-> FlAdd(start.lng, FlMul(FlSub(end.lng, start.lng), t))]]

\* Numbers of the format, as coordinates: 0, 1, 3 and -18
FlCoords == {0, One, 3 * One, 0 - 18 * One}

FlPoints == [lat : FlCoords, lng : FlCoords]

\* Vertices along the equator, at multiples of 60 units (0.48 m), which
\* every sample count explored divides.
GridPoints == {[lat |-> 0, lng |-> x] : x \in {0, 60, 240, 1200}}

\* geo.ts lines 89-95: the length of segment i and of the whole polyline
SegmentLength(vertices, i) ==
  haversineDistance(vertices[i].lat, vertices[i].lng,
                    vertices[i + 1].lat, vertices[i + 1].lng)

RECURSIVE TotalLength(_, _)
TotalLength(vertices, i) ==
  IF i = 0 THEN 0
  ELSE TotalLength(vertices, i - 1) + SegmentLength(vertices, i)

\* geo.ts lines 106-109
SegmentSamples(vertices, i, totalSamples) ==
  Max(1, RoundRatio(SegmentLength(vertices, i) * totalSamples,
                    TotalLength(vertices, Len(vertices) - 1)))

\* geo.ts lines 112-121: the points segment i contributes.  Of the points
\* of the segment the last is left out unless the segment is the last, and
\* the first is left out unless the segment is the first.  A polyline of
\* length 0 makes segmentSamples NaN, and the segment has no points.
SegmentPoints(vertices, i, totalSamples) ==
  IF TotalLength(vertices, Len(vertices) - 1) = 0 THEN <<>>
  ELSE LET segmentPoints ==
             interpolatePoints(vertices[i], vertices[i + 1],
                               SegmentSamples(vertices, i, totalSamples))
           isLastSegment == i = Len(vertices) - 1
           endIdx == IF isLastSegment THEN Len(segmentPoints)
                     ELSE Len(segmentPoints) - 1
           from == IF i > 1 THEN 2 ELSE 1
       IN IF endIdx < from THEN <<>>
          ELSE SubSeq(segmentPoints, from, endIdx)

RECURSIVE PolylinePoints(_, _, _)
PolylinePoints(vertices, i, totalSamples) ==
  IF i = 0 THEN <<>>
  ELSE PolylinePoints(vertices, i - 1, totalSamples)
       \o SegmentPoints(vertices, i, totalSamples)

\* Faulty variant of interpolatePolyline: the vertices are returned as
\* they are.
interpolatePolylineVertices(vertices, totalSamples) == vertices

\* geo.ts lines 76-125
interpolatePolyline(vertices, totalSamples) ==
  IF Len(vertices) < 2 THEN vertices
  ELSE IF Len(vertices) = 2
  THEN interpolatePoints(vertices[1], vertices[2], totalSamples)
  ELSE PolylinePoints(vertices, Len(vertices) - 1, totalSamples)

Interpolate(a, b, numPoints) ==
  /\ geo = NoGeo
  /\ geo' = [fn |-> "interpolatePoints", pts |-> <<a, b>>, n |-> numPoints,
             out |-> interpolatePointsFl(a, b, numPoints)]
  /\ UNCHANGED <<hook, call, draw>>

InterpolatePolyline(vertices, totalSamples) ==
  /\ geo = NoGeo
  /\ geo' = [fn |-> "interpolatePolyline", pts |-> vertices,
             n |-> totalSamples,
             out |-> interpolatePolyline(vertices, totalSamples)]
  /\ UNCHANGED <<hook, call, draw>>

CumulativeDistances(coords) ==
  /\ geo = NoGeo
  /\ geo' = [fn |-> "calculateCumulativeDistances", pts |-> coords, n |-> 0,
             out |-> calculateCumulativeDistances(coords)]
  /\ UNCHANGED <<hook, call, draw>>

NextGeo ==
  \/ \E a \in FlPoints, b \in FlPoints, numPoints \in 1..MaxSamples :
       Interpolate(a, b, numPoints)
  \/ \E vertices \in SeqsUpTo(GridPoints, MaxVertices), totalSamples \in 1..MaxSamples :
       InterpolatePolyline(vertices, totalSamples)
  \/ \E coords \in SeqsUpTo(GridPoints, MaxVertices) : CumulativeDistances(coords)

\* One call of a function of geo.ts, on every input explored.
SpecGeo == Init /\ [][NextGeo]_vars

----------------------------------------------------------------------------
\* The drawing UI (components/TopoSlicer/TopoSlicer.tsx: DrawingLayer, MapPane)
\*
\* draw holds the React state that the handlers read: drawMode, drawMethod,
\* isDrawing, dragStart, tempPoints, finalPoints and spotElevation, the
\* spot-elevation fetches in flight, and out, the callback the last gesture
\* invoked with its argument.  The loading bar, the hover marker and the
\* Leaflet dragging / double-click-zoom switches are written by the handlers
\* but read by none of them and are left out.

\* Longest list of clicked points explored.
MaxTempPoints == 3

MIN_LINE_DISTANCE_METERS == 100

\* Places the pointer is at when a mouse event fires: 120 m apart.
DrawPoints == { [lat |-> 0, lng |-> 0], [lat |-> 0, lng |-> 15000] }

\* Elevations a spot-elevation fetch ends with (null: failed or no data).
SpotElevations == {Null, Some(100)}

DrawMethods == {"drag", "points"}

\* calculatePolylineLength, in millimetres
RECURSIVE calculatePolylineLength(_)
calculatePolylineLength(points) ==
  IF Len(points) < 2 THEN 0
  ELSE LET n == Len(points)
           prev == points[n - 1]
           curr == points[n]
       IN calculatePolylineLength(SubSeq(points, 1, n - 1))
            + haversineDistance(prev.lat, prev.lng, curr.lat, curr.lng)

\* distance < MIN_LINE_DISTANCE_METERS
TooShort(points) ==
  calculatePolylineLength(points) < MIN_LINE_DISTANCE_METERS * 1000

Called(fn, arg) == [fn |-> fn, arg |-> arg]

\* useEffect on [drawMode, drawMethod]: leaving draw mode drops the drawing
ResetWhenOff(d) ==
  IF d.drawMode THEN d
  ELSE [d EXCEPT !.isDrawing = FALSE, !.dragStart = Null,
                 !.tempPoints = <<>>]

\* handleSpotElevation up to its await
handleSpotElevation(d, point) ==
  [d EXCEPT !.spotElevation =
              Some([coord |-> point, elevation |-> Null, loading |-> TRUE]),
            !.tempPoints = <<>>,
            !.spotFetches = @ \cup {point},
            !.out = Called("onSpotElevation", <<point>>)]

\* the finishing gestures' call of onLineDrawn
LineFinished(d, points) ==
  [d EXCEPT !.tempPoints = <<>>, !.finalPoints = points,
            !.out = Called("onLineDrawn", points)]

handleToggleDrawMode ==
  /\ draw' = ResetWhenOff([draw EXCEPT !.drawMode = ~ draw.drawMode,
                                       !.tempPoints =
                                          IF draw.drawMode THEN <<>> ELSE @,
                                       !.out = NoOut])
  /\ UNCHANGED <<hook, call, geo>>

setDrawMethod(m) ==
  /\ m # draw.drawMethod
  /\ draw' = ResetWhenOff([draw EXCEPT !.drawMethod = m, !.out = NoOut])
  /\ UNCHANGED <<hook, call, geo>>

mousedown(p) ==
  /\ draw.drawMode /\ draw.drawMethod = "drag"
  /\ draw' = [draw EXCEPT !.isDrawing = TRUE, !.dragStart = Some(p),
                          !.tempPoints = <<p>>, !.finalPoints = <<>>,
                          !.spotElevation = Null, !.out = NoOut]
  /\ UNCHANGED <<hook, call, geo>>

mousemove(p) ==
  /\ draw.drawMode
  /\ draw.drawMethod = "drag" /\ draw.isDrawing /\ draw.dragStart # Null
  /\ draw' = [draw EXCEPT !.tempPoints = <<draw.dragStart[1], p>>,
                          !.out = NoOut]
  /\ UNCHANGED <<hook, call, geo>>

mouseup(p) ==
  /\ draw.drawMode /\ draw.drawMethod = "drag"
  /\ draw.isDrawing /\ draw.dragStart # Null
  /\ LET points == <<draw.dragStart[1], p>>
         released == [draw EXCEPT !.isDrawing = FALSE, !.dragStart = Null]
     IN draw' = IF TooShort(points)
                THEN [released EXCEPT !.tempPoints = <<>>, !.out = NoOut]
                ELSE LineFinished(released, points)
  /\ UNCHANGED <<hook, call, geo>>

click(p) ==
  /\ draw.drawMode /\ draw.drawMethod = "points"
  /\ Len(draw.tempPoints) < MaxTempPoints
  /\ draw' = [draw EXCEPT !.spotElevation =
                             IF draw.tempPoints = <<>> THEN Null ELSE @,
                          !.tempPoints = Append(@, p),
                          !.out = NoOut]
  /\ UNCHANGED <<hook, call, geo>>

dblclick ==
  /\ draw.drawMode /\ draw.drawMethod = "points"
  /\ ~ (Len(draw.tempPoints) < 2)
  /\ draw' = IF TooShort(draw.tempPoints)
             THEN [draw EXCEPT !.out = NoOut]
             ELSE LineFinished(draw, draw.tempPoints)
  /\ UNCHANGED <<hook, call, geo>>

\* Faulty variant of contextmenu: a right-click hands over whatever has been
\* clicked, a single point included.
contextmenuAnyLength ==
  /\ draw.drawMode /\ draw.drawMethod = "points"
  /\ ~ (Len(draw.tempPoints) < 1)
  /\ draw' = LineFinished(draw, draw.tempPoints)
  /\ UNCHANGED <<hook, call, geo>>

contextmenu ==
  /\ draw.drawMode /\ draw.drawMethod = "points"
  /\ ~ (Len(draw.tempPoints) < 1)
  /\ draw' = IF Len(draw.tempPoints) = 1
             THEN handleSpotElevation(draw, draw.tempPoints[1])
             ELSE IF TooShort(draw.tempPoints)
                  THEN [draw EXCEPT !.out = NoOut]
                  ELSE LineFinished(draw, draw.tempPoints)
  /\ UNCHANGED <<hook, call, geo>>

\* The Finish button is rendered while points are being clicked.
handleFinishPoints ==
  /\ draw.drawMode /\ draw.drawMethod = "points"
  /\ Len(draw.tempPoints) >= 1
  /\ draw' = IF Len(draw.tempPoints) = 1
             THEN handleSpotElevation(draw, draw.tempPoints[1])
             ELSE IF Len(draw.tempPoints) >= 2 /\ ~ TooShort(draw.tempPoints)
                  THEN LineFinished(draw, draw.tempPoints)
                  ELSE [draw EXCEPT !.out = NoOut]
  /\ UNCHANGED <<hook, call, geo>>

\* handleSpotElevation after its await: the fetch resolved or was rejected
SpotElevationSettles(point, elevation) ==
  /\ point \in draw.spotFetches
  /\ draw' = [draw EXCEPT !.spotElevation =
                             Some([coord |-> point, elevation |-> elevation,
                                   loading |-> FALSE]),
                          !.spotFetches = @ \ {point},
                          !.out = NoOut]
  /\ UNCHANGED <<hook, call, geo>>

ClearPoints(d) ==
  [d EXCEPT !.tempPoints = <<>>, !.finalPoints = <<>>,
            !.spotElevation = Null, !.out = Called("onClear", <<>>)]

handleClearPoints ==
  /\ draw' = ClearPoints(draw)
  /\ UNCHANGED <<hook, call, geo>>

\* The Escape key: clear points, then leave draw mode, then clear the drawing
handleKeyDown ==
  /\ \/ draw.drawMode
     \/ draw.finalPoints # <<>>
     \/ draw.spotElevation # Null
  /\ draw' = IF draw.drawMode
             THEN IF Len(draw.tempPoints) > 0
                  THEN [draw EXCEPT !.tempPoints = <<>>, !.out = NoOut]
                  ELSE ResetWhenOff([draw EXCEPT !.drawMode = FALSE,
                                                 !.out = NoOut])
             ELSE ClearPoints(draw)
  /\ UNCHANGED <<hook, call, geo>>

NextDraw ==
  \/ handleToggleDrawMode
  \/ \E m \in DrawMethods : setDrawMethod(m)
  \/ \E p \in DrawPoints : mousedown(p)
  \/ \E p \in DrawPoints : mousemove(p)
  \/ \E p \in DrawPoints : mouseup(p)
  \/ \E p \in DrawPoints : click(p)
  \/ dblclick
  \/ contextmenu
  \/ handleFinishPoints
  \/ \E p \in DrawPoints, e \in SpotElevations : SpotElevationSettles(p, e)
  \/ handleClearPoints
  \/ handleKeyDown

\* The gestures of the drawing UI, on every order explored.
SpecDraw == Init /\ [][NextDraw]_vars

----------------------------------------------------------------------------
\* Properties

\* Session s takes a step: every step of a session moves its pc.
Steps(s) == pc'[s] # pc[s]

\* s has started and has not left fetchForLine
Active(s) == pc[s] \in {"fetch0", "fetchR", "delay"}

\* reset's published state
Cleared ==
  /\ data = <<>>
  /\ loading = FALSE
  /\ progress = 0
  /\ error = NoError
  /\ isRefining = FALSE

\* C1: once a later fetchForLine call has been made, an earlier session
\* publishes no data snapshot any more, also when its pending fetch
\* resolves successfully.
C1_SupersededPublishesNoSnapshot ==
  [][\A s \in Sessions :
       (s < nSessions /\ Steps(s)) => (~last'.pub /\ data' = data)]_vars

\* C2: a session superseded by a later fetchForLine call never changes the
\* published error, whatever its pending fetch fails with.
C2_SupersededPublishesNoError ==
  [][\A s \in Sessions :
       (s < nSessions /\ Steps(s)) => error' = error]_vars

\* C3: a session whose cancellation was requested while it was suspended in
\* a pacing delay (the one after the final round included) changes no
\* published field when it resumes.
C3_CancelledInDelayPublishesNothing ==
  [][\A s \in Sessions :
       (pc[s] = "delay" /\ aborted[s] /\ Steps(s))
         => UNCHANGED <<data, loading, progress, isRefining, error>>]_vars

\* C4: from reset until the next fetchForLine call (isCancelledRef is true
\* exactly then) the published state is the cleared one, whatever pending
\* fetches, delays and timers of earlier sessions do.
C4_ResetStateStays == isCancelledRef => Cleared

\* C4 witness: after reset the pending fetch of a session settled and the
\* session ended there.
C4_Witness ==
  /\ isCancelledRef
  /\ last.op \in {"resolve", "error"}
  /\ pc[last.s] = "cancelled"

\* C5: among the sessions that have started and not finished at most one
\* has a controller that is not aborted.
C5_AtMostOneActive ==
  \A s, t \in Sessions :
     (s # t /\ Active(s) /\ Active(t)) => (aborted[s] \/ aborted[t])

\* C5 witness: two sessions are inside fetchForLine at once.
C5_Witness ==
  \E s, t \in Sessions : s # t /\ Active(s) /\ Active(t)

\* C6: the snapshots of one session are published as rounds 0, 1, 2, ...
\* in this order, each once, and each published series is at least as long
\* as the session's previous one.
C6_RoundsInOrder ==
  [][\A s \in Sessions :
       (Steps(s) /\ last'.pub)
         => /\ last'.round = round[s] + 1
            /\ Len(data') >= Len(elevationData[s])]_vars

\* C6 witness: a session has published its round 2 snapshot.
C6_Witness ==
  \E s \in Sessions : round[s] = 2 /\ pc[s] = "delay"

\* C7: every point of the round r series is in the round r+1 series with
\* the same coordinate, distance and elevation.
C7_ExistingPointsUnchanged ==
  [][\A s \in Sessions :
       (pc[s] = "fetchR" /\ pc'[s] = "delay")
         => \A i \in 1..Len(elevationData[s]) :
              \E j \in 1..Len(data') : data'[j] = elevationData[s][i]]_vars

\* The coordinates of the midpoints of the gaps of ed, left to right
MidCoords(ed) ==
  [i \in 1..(Len(ed) - 1) |->
     [lat |-> (ed[i].lat + ed[i+1].lat) \div 2,
      lng |-> (ed[i].lng + ed[i+1].lng) \div 2]]

\* C8: the coordinates requested in a refinement round are exactly the
\* midpoints inserted in that round, left to right.
C8_RequestsOnlyMidpoints ==
  \A s \in Sessions :
     pc[s] = "fetchR" => request[s] = MidCoords(elevationData[s])

\* C9: the series published by a refinement round has 2 * n - 1 points,
\* n the length of the previous series: the previous points, in order, at
\* the odd positions with their coordinate and distance, one new point in
\* each gap.
C9_LengthDoubles ==
  [][\A s \in Sessions :
       (pc[s] = "fetchR" /\ pc'[s] = "delay")
         => LET old == elevationData[s] IN
            /\ data' = elevationData'[s]
            /\ Len(data') = 2 * Len(old) - 1
            /\ \A i \in 1..Len(old) :
                 /\ data'[2 * i - 1].lat = old[i].lat
                 /\ data'[2 * i - 1].lng = old[i].lng
                 /\ data'[2 * i - 1].distance = old[i].distance]_vars

\* C9 witness: a refinement round has published its snapshot.
C9_Witness ==
  /\ last.op = "resolve"
  /\ last.round >= 1
  /\ Len(data) = 2 * (2 * (INITIAL_SAMPLES + 1) - 1) - 1

\* C10: when a fetch of the current session, not cancelled, fails with a
\* failure that is not a cancellation, the session ends and error is the
\* failure's message, loading and isRefining are false, progress is 0 and
\* data is what it was.
C10_FailurePublished ==
  [][\A s \in Sessions :
       (/\ Steps(s)
        /\ last'.op = "error"
        /\ abortControllerRef = s
        /\ ~aborted[s])
         => /\ error' = last'.msg
            /\ loading' = FALSE
            /\ isRefining' = FALSE
            /\ progress' = 0
            /\ data' = data
            /\ pc'[s] = "failed"]_vars

\* C10 witness: a refinement fetch failed and the snapshot published before
\* it is still shown with the error.
C10_Witness ==
  /\ last.op = "error"
  /\ pc[last.s] = "failed"
  /\ error \in ErrMsgs
  /\ data # <<>>

\* C11: a call with fewer than two points is rejected before a session
\* begins: it issues no fetch and creates no session state (the previous
\* controller is not aborted nor replaced, the flag and the loading
\* indicators are not touched).
C11_DegenerateCreatesNoSession ==
  [][(last'.op = "degenerate" /\ nSessions' # nSessions)
       => UNCHANGED <<abortControllerRef, aborted, isCancelledRef, request,
                      data, loading, progress, isRefining>>]_vars

\* C12: progress is 50 when the initial snapshot is published and
\* 50 + (r / K) * 50 when the snapshot of refinement round r is, K the
\* number of refinement rounds: 100 at the last round.  (progress is kept
\* multiplied by K.)
C12_ProgressAtPublication ==
  [][\A s \in Sessions :
       (Steps(s) /\ last'.pub)
         => /\ last'.round \in 0..REFINEMENT_ITERATIONS
            /\ progress' = 50 * REFINEMENT_ITERATIONS + 50 * last'.round
            /\ last'.round = 0 => progress' = Pct(50)
            /\ last'.round = REFINEMENT_ITERATIONS
                 => progress' = Pct(100)]_vars

\* C12 witness: the snapshot of the last round has just been published.
C12_Witness ==
  /\ last.op = "resolve"
  /\ last.pub
  /\ last.round = REFINEMENT_ITERATIONS
  /\ progress = Pct(100)

\* Length of the series of round k: n points become 2 * n - 1
RECURSIVE SeriesLen(_)
SeriesLen(k) ==
  IF k = 0 THEN INITIAL_SAMPLES + 1 ELSE 2 * SeriesLen(k - 1) - 1

\* The only session has completed: the series of the last round is shown,
\* the indicators are off, the completion timer has reset progress.
Done ==
  /\ pc[1] = "done"
  /\ Len(data) = SeriesLen(REFINEMENT_ITERATIONS)
  /\ loading = FALSE
  /\ isRefining = FALSE
  /\ progress = 0

\* C13: a session that nothing interrupts and whose fetches all succeed
\* eventually is done, with the last round's snapshot published, loading
\* and isRefining false and progress 0, and stays so.
C13_EventuallyDone == (nSessions = 1) ~> []Done

\* C13 witness: the completed state is reached.
C13_Witness == Done /\ last.op = "timer"

\* fetchForLine has returned normally: its promise is resolved
Resolved(label) == label \in {"cancelled", "failed", "timer", "done"}

\* C14 as stated: whenever a session handles a failure that is not a
\* cancellation, fetchForLine returns normally and the failure's message
\* becomes the published error.
C14_EveryFailurePublished ==
  [][\A s \in Sessions :
       (Steps(s) /\ last'.op \in {"error", "degenerate"})
         => /\ Resolved(pc'[s])
            /\ error' = last'.msg]_vars

\* C14 amended: fetchForLine returns normally after every failure; the
\* message of a failure that is not a cancellation becomes the published
\* error when the session handling it has not been cancelled, and is
\* dropped, error unchanged, when reset was called since the last
\* fetchForLine call.
C14_FailuresCaught ==
  [][\A s \in Sessions :
       (Steps(s) /\ last'.op \in {"error", "abort", "degenerate"})
         => /\ Resolved(pc'[s])
            /\ (last'.op = "degenerate"
                  \/ (last'.op = "error" /\ abortControllerRef = s
                        /\ ~aborted[s]))
                 => (error' = last'.msg /\ pc'[s] = "failed")
            /\ (last'.op = "error" /\ isCancelledRef)
                 => (error' = error /\ pc'[s] = "cancelled")]_vars

\* C14 witness: the current session's fetch failed and the message is shown.
C14_Witness ==
  /\ last.op = "error"
  /\ abortControllerRef = last.s
  /\ ~aborted[last.s]
  /\ pc[last.s] = "failed"
  /\ error = last.msg

\* C15: a session whose awaited fetch ends with the AbortError of its
\* aborted signal changes no published field.
C15_AbortIsNoOp ==
  [][\A s \in Sessions :
       (Steps(s) /\ last'.op = "abort")
         => /\ UNCHANGED <<data, loading, progress, error, isRefining>>
            /\ pc'[s] = "cancelled"]_vars

\* C15 witness: a superseded session (the flag cleared by the later call)
\* got the AbortError and ended silently while the later session loads.
C15_Witness ==
  /\ last.op = "abort"
  /\ ~isCancelledRef
  /\ pc[last.s] = "cancelled"
  /\ loading
  /\ error = NoError

\* C16: a published series is never modified afterwards: when the next
\* snapshot is published the previous one still reads as it was published.
C16_SnapshotsImmutable ==
  [][last'.pub => prevData' = data]_vars

\* fetchElevations has settled with a value / with an error
ApiReturned == call.pc = "done" /\ call.out[1].ok
ApiThrew == call.pc = "done" /\ ~call.out[1].ok

\* C17: on success fetchElevations returns as many elevations as it was
\* given coordinates, the i-th being what the service reports at position i,
\* whatever payload the service sends with a success status.
C17_SameLengthAndOrder ==
  ApiReturned =>
    /\ Len(call.out[1].value) = Len(call.coords)
    /\ \A i \in 1..Len(call.coords) :
         call.out[1].value[i] = call.body[1].results[i].elevation

\* C18: in each of the three failure cases (non-success HTTP status, failed
\* transport, payload status other than OK) fetchElevations fails with an
\* ElevationApiError; it carries the status code in the first case and the
\* payload's error string, or the default message, in the third.
C18_TypedFailures ==
  call.pc = "done" =>
    /\ (call.net = "responded" /\ ~ResponseOk(call.status[1])) =>
         /\ ApiThrew
         /\ call.out[1].name = "ElevationApiError"
         /\ call.out[1].statusCode = call.status
    /\ call.net = "failed" =>
         /\ ApiThrew
         /\ call.out[1].name = "ElevationApiError"
    /\ (call.body # Null /\ call.body[1].status # "OK") =>
         /\ ApiThrew
         /\ call.out[1].name = "ElevationApiError"
         /\ call.out[1].message =
              IF call.body[1].error = Null THEN "Unknown API error"
              ELSE call.body[1].error[1]

\* C19: called with an empty coordinate list fetchElevations returns an
\* empty sequence and has made no network call.
C19_EmptyInputNoFetch ==
  (call.pc = "done" /\ Len(call.coords) = 0) =>
    /\ ApiReturned
    /\ call.out[1].value = <<>>
    /\ call.fetches = 0
    /\ call.net = "none"

C19_Witness ==
  /\ call.pc = "done"
  /\ call.coords = <<>>
  /\ call.out = Some(Returned(<<>>))
  /\ call.fetches = 0

\* The series published at round r has the (r+1)-th of these lengths.
PublishesLengths(lengths) ==
  (last'.pub /\ last'.round \in 0..REFINEMENT_ITERATIONS)
    => Len(data') = lengths[last'.round + 1]

\* C20 as stated: for a 2-vertex line and the default parameters the series
\* published at rounds 0, 1, 2 and 3 have 15, 29, 57 and 113 points.
C20_SpecCounts == [][PublishesLengths(<<15, 29, 57, 113>>)]_vars

\* C20: for a 2-vertex line and the default parameters (INITIAL_SAMPLES 15,
\* 3 refinement rounds) the series published at rounds 0, 1, 2 and 3 have
\* 16, 31, 61 and 121 points.
C20_PublishedCounts == [][PublishesLengths(<<16, 31, 61, 121>>)]_vars

\* C20 witness: the last round has published its series of 121 points.
C20_Witness ==
  /\ last.op = "resolve"
  /\ last.pub
  /\ last.round = REFINEMENT_ITERATIONS
  /\ Len(data) = 121

\* The last refinement round has just published its series.
FinalPublished ==
  last.op = "resolve" /\ last.pub /\ last.round = REFINEMENT_ITERATIONS

\* C21: when the service returns a non-null value for every requested
\* coordinate, every sample of the final series has the elevation the
\* service returns for the sample's coordinate (100 for every sample of a
\* line along the equator, where the service always returns 100).
C21_FinalElevations ==
  FinalPublished =>
    \A i \in 1..Len(data) :
      /\ data[i].elevation # Null
      /\ data[i].elevation = Terrain(data[i])
      /\ data[i].lat = 0 => data[i].elevation = Some(100)

\* C21 witness: the final series of a line along a meridian, whose
\* samples have different elevations.
C21_Witness ==
  /\ FinalPublished
  /\ Len(data) = 121
  /\ data[2].elevation = Some(100 + data[2].lat)
  /\ data[2].lat # 0
  /\ data[2].elevation # data[3].elevation

\* The distances computed for the initial series of the line that the
\* series ed samples (lines 58 and 63)
InitialDistances(ed) ==
  calculateCumulativeDistances(
    interpolatePoints(ed[1], ed[Len(ed)], INITIAL_SAMPLES))

NonDecreasing(ed) ==
  \A i \in 1..(Len(ed) - 1) : ed[i].distance <= ed[i + 1].distance

StrictlyIncreasing(ed) ==
  \A i \in 1..(Len(ed) - 1) : ed[i].distance < ed[i + 1].distance

\* C22: in every published series the distances are non-decreasing, the
\* first sample has distance 0 and the last sample has the total path
\* length computed for the initial series.
C22_DistancesOrdered ==
  Len(data) > 0 =>
    /\ data[1].distance = 0
    /\ NonDecreasing(data)
    /\ data[Len(data)].distance =
         InitialDistances(data)[INITIAL_SAMPLES + 1]

\* C22 witness: a refined series of a line of positive length in which two
\* adjacent samples share a distance.
C22_Witness ==
  /\ last.pub
  /\ last.round >= 1
  /\ Len(data) > 0
  /\ data[Len(data)].distance > 0
  /\ \E i \in 1..(Len(data) - 1) : data[i].distance = data[i + 1].distance

\* A refinement round has just published data.
RefinedPublished ==
  last.op = "resolve" /\ last.pub /\ last.round >= 1

\* C23 as stated: whenever the initial series has strictly increasing
\* distances, every refined series published afterwards has strictly
\* increasing distances too.
C23_StaysStrict ==
  (RefinedPublished
   /\ \A i \in 1..INITIAL_SAMPLES :
        InitialDistances(data)[i] < InitialDistances(data)[i + 1])
    => StrictlyIncreasing(data)

\* C23: whenever adjacent samples of the initial series are at least 2^r
\* metres apart, the series published at refinement round r has strictly
\* increasing distances.
C23_StrictWhenApart ==
  (RefinedPublished
   /\ \A i \in 1..INITIAL_SAMPLES :
        InitialDistances(data)[i + 1] - InitialDistances(data)[i]
          >= Pow2(last.round))
    => StrictlyIncreasing(data)

\* C23 witness: the last round's series of the line whose initial samples
\* are 8 m apart: its samples are 1 m apart.
C23_Witness ==
  /\ RefinedPublished
  /\ last.round = REFINEMENT_ITERATIONS
  /\ Len(data) = 121
  /\ data[2].distance = 1
  /\ data[121].distance = 120

\* C24: the step that publishes the snapshot of the last refinement round
\* completes the session (loading and isRefining false): no pacing delay
\* follows the last round.
C24_NoPauseAfterLastRound ==
  [][\A s \in Sessions :
       (Steps(s) /\ last'.pub /\ last'.round = REFINEMENT_ITERATIONS)
         => /\ pc'[s] # "delay"
            /\ loading' = FALSE
            /\ isRefining' = FALSE]_vars

\* C25: a session that has failed stays failed: it takes no further step,
\* so it has no fetch pending and publishes nothing more.
C25_FailedIsTerminal ==
  [][\A s \in Sessions :
       pc[s] = "failed"
         => /\ pc'[s] = "failed"
            /\ request'[s] = <<>>
            /\ last'.s # s]_vars

\* C25 witness: after session 1 failed, something else happened.
C25_Witness ==
  /\ pc[1] = "failed"
  /\ last.s # 1
  /\ last.op \in {"reset", "resolve"}

\* C26: the published progress is within 0..100.
C26_ProgressInRange == progress \in 0..Pct(100)

\* C26 witness: progress is 100 while another session is still running.
C26_Witness ==
  /\ progress = Pct(100)
  /\ \E s \in Sessions : s # last.s /\ Active(s)

\* C27: interpolatePoints(a, b, n) returns n + 1 points, the first equal to
\* a and the last equal to b, and the parameter t = i / n is strictly
\* increasing over the points.
C27_InterpolateEnds ==
  geo.fn = "interpolatePoints" =>
    /\ Len(geo.out) = geo.n + 1
    /\ geo.out[1] = geo.pts[1]
    /\ geo.out[geo.n + 1] = geo.pts[2]
    /\ \A i \in 0..(geo.n - 1) :
         InterpolationT(i, geo.n) < InterpolationT(i + 1, geo.n)

RECURSIVE SumOfSamples(_, _, _)
SumOfSamples(vertices, i, totalSamples) ==
  IF i = 0 THEN 0
  ELSE SumOfSamples(vertices, i - 1, totalSamples)
       + SegmentSamples(vertices, i, totalSamples)

\* C28: for a polyline of 3 or more vertices (of positive length) and
\* every sample count, interpolatePolyline returns at least as many points
\* as there are vertices, and exactly 1 + the sum over the segments of
\* max(1, round(k * segmentLength / totalLength)).
C28_EverySegmentSampled ==
  (/\ geo.fn = "interpolatePolyline"
   /\ Len(geo.pts) >= 3
   /\ TotalLength(geo.pts, Len(geo.pts) - 1) > 0)
    => /\ Len(geo.out) >= Len(geo.pts)
       /\ Len(geo.out) = 1 + SumOfSamples(geo.pts, Len(geo.pts) - 1, geo.n)

\* C29: for a polyline of 2 vertices interpolatePolyline returns what
\* interpolatePoints returns for the two vertices and the same count.
C29_TwoVerticesAsInterpolate ==
  (geo.fn = "interpolatePolyline" /\ Len(geo.pts) = 2)
    => geo.out = interpolatePoints(geo.pts[1], geo.pts[2], geo.n)

\* C29 witness: a polyline of two different vertices, sampled 3 times.
C29_Witness ==
  /\ geo.fn = "interpolatePolyline"
  /\ Len(geo.pts) = 2
  /\ geo.pts[1] # geo.pts[2]
  /\ geo.n = 3
  /\ Len(geo.out) = 4
  /\ geo.out[2] # geo.out[3]

\* The result's elements are 0 first, non-decreasing, and each the rounded
\* sum of the distances between the consecutive coordinates before it.
RoundedRunningSum ==
  /\ geo.out[1] = 0
  /\ \A i \in 1..(Len(geo.out) - 1) : geo.out[i] <= geo.out[i + 1]
  /\ \A i \in 1..Len(geo.out) :
       geo.out[i] = RoundMilli(CumulativeMm(geo.pts, i))

\* C30 as stated: calculateCumulativeDistances returns one value per
\* coordinate, 0 first, non-decreasing, each the rounded running sum.
C30_OnePerCoordinate ==
  geo.fn = "calculateCumulativeDistances" =>
    /\ Len(geo.out) = Len(geo.pts)
    /\ Len(geo.pts) > 0 => RoundedRunningSum

\* C30: calculateCumulativeDistances returns one value per coordinate for
\* one or more coordinates and the single value 0 for none; the values are
\* 0 first, non-decreasing, each the rounded running sum.
C30_OnePerCoordinateOrZero ==
  geo.fn = "calculateCumulativeDistances" =>
    /\ Len(geo.out) = Max(1, Len(geo.pts))
    /\ RoundedRunningSum

\* C30 witness: three coordinates for which the rounded running sum
\* differs from the sum of the rounded steps.
C30_Witness ==
  /\ geo.fn = "calculateCumulativeDistances"
  /\ Len(geo.pts) = 3
  /\ Len(geo.out) = 3
  /\ geo.out[3] # SumOfRoundedSteps(geo.pts, 3)

\* C31: every call of onLineDrawn made by a finishing gesture of the drawing
\* UI (mouse-up of a drag, double-click, right-click, Finish button) passes
\* a sequence of two or more points; a single point is never passed to it.
C31_AtLeastTwoVertices ==
  draw.out.fn = "onLineDrawn" => Len(draw.out.arg) >= 2

\* A line of three clicked points has been handed over while a right-click
\* on a single point went to the spot elevation instead.
C31_Witness ==
  /\ draw.out.fn = "onLineDrawn"
  /\ Len(draw.out.arg) = 3
  /\ draw.spotElevation # Null

\* The refined series r read against the series s it was built from: the
\* point at an odd place 2i-1 (place 2i-2 counted from 0) has the
\* coordinate and distance of s[i], and the point after it lies midway
\* between s[i] and s[i+1], at the rounded mean of their distances, and was
\* among the points without an elevation that the round's fetch asked for.
RefinedFrom(s, r, asked) ==
  /\ Len(r) = 2 * Len(s) - 1
  /\ \A i \in 1..Len(s) :
       /\ r[2 * i - 1].lat = s[i].lat
       /\ r[2 * i - 1].lng = s[i].lng
       /\ r[2 * i - 1].distance = s[i].distance
  /\ \A i \in 1..(Len(s) - 1) :
       /\ 2 * r[2 * i].lat = s[i].lat + s[i + 1].lat
       /\ 2 * r[2 * i].lng = s[i].lng + s[i + 1].lng
       /\ 2 * r[2 * i].distance - (s[i].distance + s[i + 1].distance)
            \in {0, 1}
       /\ \E k \in 1..Len(asked) :
            asked[k] = [lat |-> r[2 * i].lat, lng |-> r[2 * i].lng]

\* A refinement round of session s publishes its series.
RefinementPublished(s) ==
  /\ last'.op = "resolve" /\ last'.pub /\ last'.s = s /\ last'.round >= 1

\* C32: the series a refinement round publishes holds the points of the
\* series it was built from at every other place, the same objects as in the
\* snapshot published before, and between s[i] and s[i+1] a new point with
\* the mean of their lat and lng and the rounded mean of their distances,
\* which had no elevation when the round's fetch was issued.
C32_MidpointsInserted ==
  [][\A s \in Sessions :
       RefinementPublished(s) =>
         /\ RefinedFrom(elevationData[s], data', request[s])
         /\ dataBy = s =>
              \A i \in 1..Len(elevationData[s]) :
                data'[2 * i - 1] = prevData'[i]]_vars

\* The last round has published its 121 points while some inserted point
\* got no elevation from the service.
C32_Witness ==
  /\ last.op = "resolve" /\ last.pub /\ last.round = REFINEMENT_ITERATIONS
  /\ Len(data) = 8 * INITIAL_SAMPLES + 1
  /\ \E j \in 1..Len(data) : j % 2 = 0 /\ data[j].elevation = Null

\* The point at place j of the series refined from ed had no elevation
\* before the merge: it is new, or it is a point of ed without one.
WasNull(ed, j) == j % 2 = 0 \/ ed[(j + 1) \div 2].elevation = Null

\* How many points up to place j had no elevation before the merge.
NullsUpTo(ed, j) == Cardinality({k \in 1..j : WasNull(ed, k)})

\* r is the series refined from ed after answer was merged into it: the
\* i-th point without an elevation, from the left, is the i-th coordinate
\* asked for and holds the i-th entry of the answer, or null when the answer
\* has no i-th entry; every other point holds the elevation it had.
MergedInOrder(ed, r, asked, answer) ==
  /\ Len(asked) = NullsUpTo(ed, Len(r))
  /\ \A j \in 1..Len(r) :
       IF WasNull(ed, j)
       THEN /\ asked[NullsUpTo(ed, j)] = [lat |-> r[j].lat, lng |-> r[j].lng]
            /\ r[j].elevation = At(answer, NullsUpTo(ed, j))
       ELSE r[j].elevation = ed[(j + 1) \div 2].elevation

\* C33: when the fetch of a refinement round returns to a session that was
\* not cancelled, the i-th elevation of the answer goes to the i-th point
\* asked for, from left to right; points the answer has no entry for keep
\* elevation null; and the round's snapshot is published whatever the
\* length of the answer.
C33_MergedInOrder ==
  [][\A s \in Sessions :
       (/\ pc[s] = "fetchR"
        /\ last'.op = "resolve" /\ last'.s = s
        /\ pc'[s] # "cancelled") =>
         /\ last'.pub
         /\ data' = elevationData'[s]
         /\ Len(data') = 2 * Len(elevationData[s]) - 1
         /\ MergedInOrder(elevationData[s], data', request[s],
                          last'.answer)]_vars

\* Round 1 asked for the 15 inserted points and was answered with 14
\* entries: the first inserted point holds the answer's first entry, the
\* last one holds null, and the snapshot is published.
C33_Witness ==
  /\ last.op = "resolve" /\ last.pub /\ last.round = 1
  /\ Len(last.answer) = INITIAL_SAMPLES - 1
  /\ Len(data) = 2 * INITIAL_SAMPLES + 1
  /\ data[1].elevation = Some(100)
  /\ data[2].elevation = Some(250)
  /\ data[4].elevation = Null
  /\ data[Len(data) - 1].elevation = Null

\* How often the point v occurs in the sequence out.
Occurrences(out, v) == Cardinality({j \in 1..Len(out) : out[j] = v})

\* The vertices lie one after the other along the equator, eastwards.
Eastwards(vertices) ==
  \A i \in 1..(Len(vertices) - 1) : vertices[i].lng < vertices[i + 1].lng

\* C34: for a polyline of 3 or more vertices (taken one after the other
\* along a line, so that no point is passed twice) the output of
\* interpolatePolyline starts with the first vertex, ends with the last
\* vertex, and holds every vertex shared by two consecutive segments exactly
\* once.
C34_SharedVertexOnce ==
  (/\ geo.fn = "interpolatePolyline"
   /\ Len(geo.pts) >= 3
   /\ Eastwards(geo.pts))
    => /\ geo.out[1] = geo.pts[1]
       /\ geo.out[Len(geo.out)] = geo.pts[Len(geo.pts)]
       /\ \A i \in 2..(Len(geo.pts) - 1) :
            Occurrences(geo.out, geo.pts[i]) = 1

\* Session s is the call of fetchForLine made last, and it has neither
\* completed nor failed nor been cancelled (by reset: a later call would
\* be the last one).
CurrentRuns(s) ==
  /\ s = nSessions
  /\ Active(s)
  /\ ~ aborted[s]
  /\ ~ isCancelledRef

\* C35: while the session started last has not completed, failed or been
\* cancelled, loading is true: no step of an earlier session sets it to
\* false.
C35_LoadingWhileCurrentRuns ==
  \A s \in Sessions : CurrentRuns(s) => loading

\* C36: during a session that has not completed, failed or been cancelled
\* the published progress never decreases and is never below the 10 set at
\* its start: the delayed reset of progress that an earlier, completed
\* session scheduled does not set it to 0 in the middle of the session.
C36_ProgressNeverFallsBack ==
  [][\A s \in Sessions :
       CurrentRuns(s)' =>
         /\ progress' >= Pct(10)
         /\ CurrentRuns(s) => progress' >= progress]_vars

\* Every session that was started has completed, failed or been cancelled.
AllEnded == nSessions >= 1 /\ \A s \in 1..nSessions : ~ Active(s)

\* C37: in every reachable state isRefining = true implies loading = true,
\* and isRefining is false once every started session has completed, failed
\* or been cancelled.
C37_RefiningImpliesLoading ==
  /\ isRefining => loading
  /\ AllEnded => ~ isRefining

====
